---------------------------- MODULE Spec2Model ----------------------------
(***************************************************************************)
(* The media server (src/server/server.py) and its license ledger          *)
(* (src/server/aux_functions.py) as a state machine.                        *)
(*                                                                         *)
(* Time is counted in minutes.  `now` is the POSIX clock; the naive local   *)
(* wall clock that datetime.now() returns is now + tz.                      *)
(***************************************************************************)
EXTENDS Integers, Sequences, FiniteSets, TLC

(***************************************************************************)
(* Bounds of the model.                                                    *)
(***************************************************************************)
NumProcs == 2
MaxTime == 10
MaxOverdraw == 1
NumClients == 2
MaxSessions == 2

Procs == 1..NumProcs
Clients == 1..NumClients
Users == {"alice", "bob"}
\* The offset of the server's local time zone from UTC, in minutes.
UtcOffsets == {0, 60}

None == "None"

(***************************************************************************)
(* Program constants of the ledger.                                        *)
(***************************************************************************)
LICENSE_VIEWS == 4
LICENSE_SPAN == 5

VARIABLES
    licenses,   \* the content of ./licenses.json: a list of user records
    now,        \* the POSIX clock
    tz,         \* the server's UTC offset
    pc,         \* per ledger call in progress: which function it runs
    args,       \* per ledger call in progress: its arguments
    users,      \* per ledger call in progress: the list it loaded
    ret,        \* what the last ledger call that returned has returned
    batch       \* the view calls on one user that are running together

ledgerVars == <<licenses, now, tz, pc, args, users, ret, batch>>

VARIABLES
    sessions,       \* self.sessions: session id -> the keys of the session
    shared_key,     \* self.shared_key
    CIPHER,         \* self.CIPHER
    DIGEST,         \* self.DIGEST
    CIPHER_MODE,    \* self.CIPHER_MODE
    self_username,  \* self.username
    client_session, \* per client: the session id its last key exchange returned
    negotiated,     \* per session id: the suite the holder of the session posted
    resp            \* the last response the server has sent

serverVars == <<sessions, shared_key, CIPHER, DIGEST, CIPHER_MODE, self_username,
                client_session, negotiated, resp>>

NoArgs == [username |-> "", password |-> "", renew |-> FALSE, view |-> FALSE]
\* user: whose views; start: the views when the first call began; calls: how many
NoBatch == [user |-> "", start |-> 0, calls |-> 0]
NoRet == [op |-> "none", value |-> None]

(***************************************************************************)
(* datetime: the conversions between the naive local wall clock, the naive  *)
(* UTC wall clock and POSIX timestamps.                                     *)
(***************************************************************************)
\* datetime.datetime.now(): the naive local wall clock
datetime_now == now + tz

\* naive.timestamp(): a naive datetime is taken to be local time
timestamp(naive) == naive - tz

\* datetime.datetime.utcfromtimestamp(ts): the naive UTC wall clock
utcfromtimestamp(ts) == ts

(***************************************************************************)
(* Helpers on the list of users.                                           *)
(***************************************************************************)
\* for u in users: if u['username'] == username: ... (the first match)
Matches(us, username) == {i \in 1..Len(us) : us[i].username = username}

FirstIndex(us, username) ==
    CHOOSE i \in Matches(us, username) : \A j \in Matches(us, username) : i <= j

\* Python truthiness of a number
Truthy(n) == n # 0

\* The passwords users register with, and those presented at a login
Passwords == {"secret"}
Presented == Passwords \cup {"hunter2"}

\* CryptoFunctions.digests: the digest algorithms the system supports, and
\* CryptoFunctions.create_digest: the digest of a message under one of them
\* (different messages or algorithms give different digests).
digests == {"SHA512", "BLAKE2"}
create_digest(message, digest) == <<digest, message>>

\* user['passwords'] as register fills it, lines 73-74
passwords_of(password) == [d \in digests |-> create_digest(password, d)]

\* The value None where a user record is expected
NoUser == [username |-> None, passwords |-> <<>>, views |-> 0, time |-> 0]

getLicense(us, username) ==
    IF Matches(us, username) = {} THEN NoUser ELSE us[FirstIndex(us, username)]

licenseValid(us, username) ==
    LET license == getLicense(us, username) IN
    IF license = NoUser \/ ~(Truthy(license.views) /\ Truthy(license.time))
    THEN FALSE
    ELSE IF utcfromtimestamp(license.time) < datetime_now
    THEN FALSE
    ELSE IF license.views <= 0
    THEN FALSE
    ELSE TRUE

\* The record register creates
NewUser(username, password) ==
    [username |-> username,
     passwords |-> passwords_of(password),
     views |-> LICENSE_VIEWS,
     time |-> timestamp(datetime_now + LICENSE_SPAN)]

\* The record updateLicense writes back for the user it found
Updated(user, renew, view) ==
    IF renew
    THEN [user EXCEPT !.views = LICENSE_VIEWS,
                      !.time = timestamp(datetime_now + LICENSE_SPAN)]
    ELSE IF view
    THEN [user EXCEPT !.views = user.views - 1]
    ELSE user

\* register_check without the check of the signature
register_check_NoSignature(username, password, certsValid, signatureValid) ==
    IF username = "" \/ password = "" THEN "There are attributes missing!"
    ELSE IF ~certsValid THEN "The signature certificate is not valid!"
    ELSE ""

\* register, lines 31-48: the checks made before the users file is read.
\* "" when they pass, else the error message.
register_check(username, password, certsValid, signatureValid) ==
    IF username = "" \/ password = "" THEN "There are attributes missing!"
    ELSE IF ~certsValid THEN "The signature certificate is not valid!"
    ELSE IF ~signatureValid THEN "The signature is not valid!"
    ELSE ""

\* register, lines 57-82, on the list us it loaded: the list it writes
\* (wrote: whether it writes at all) and the value it returns.
register_users(us, username, password) ==
    IF Matches(us, username) # {}
    THEN [wrote |-> FALSE, users |-> us,
          value |-> "The username given is already being used!"]
    ELSE [wrote |-> TRUE, users |-> Append(us, NewUser(username, password)),
          value |-> "user"]

\* updateLicense_users that adds a record for a user it does not find
updateLicense_users_Upsert(us, username, renew, view) ==
    IF Matches(us, username) = {}
    THEN [wrote |-> TRUE, users |-> Append(us, NewUser(username, "")),
          value |-> "user"]
    ELSE LET userindex == FirstIndex(us, username) IN
         [wrote |-> TRUE,
          users |-> [us EXCEPT ![userindex] = Updated(us[userindex], renew, view)],
          value |-> "user"]

\* updateLicense, lines 142-164, on the list us it loaded.
updateLicense_users(us, username, renew, view) ==
    IF Matches(us, username) = {}
    THEN [wrote |-> FALSE, users |-> us, value |-> None]
    ELSE LET userindex == FirstIndex(us, username) IN
         [wrote |-> TRUE,
          users |-> [us EXCEPT ![userindex] = Updated(us[userindex], renew, view)],
          value |-> "user"]

(***************************************************************************)
(* The ledger calls, each run to completion before the next request.        *)
(***************************************************************************)
register(username, password, certsValid, signatureValid) ==
    LET error == register_check(username, password, certsValid, signatureValid)
        r == register_users(licenses, username, password)
    IN
    /\ IF error # ""
       THEN /\ ret' = [op |-> "register", value |-> error]
            /\ UNCHANGED licenses
       ELSE /\ ret' = [op |-> "register", value |-> r.value]
            /\ licenses' = IF r.wrote THEN r.users ELSE licenses
    /\ UNCHANGED <<now, tz, pc, args, users, batch>>

updateLicense(username, renew, view) ==
    LET r == updateLicense_users(licenses, username, renew, view) IN
    /\ IF username = ""
       THEN /\ ret' = [op |-> "updateLicense", value |-> None]
            /\ UNCHANGED licenses
       ELSE /\ ret' = [op |-> "updateLicense", value |-> r.value]
            /\ licenses' = IF r.wrote THEN r.users ELSE licenses
    /\ UNCHANGED <<now, tz, pc, args, users, batch>>

(***************************************************************************)
(* The same calls run by concurrent handlers: each reads the users file     *)
(* (load) and later writes the whole list back (store), with no lock.       *)
(***************************************************************************)
InFlight(username) ==
    Cardinality({p \in Procs : pc[p] = "updateLicense" /\ args[p].view
                               /\ ~args[p].renew /\ args[p].username = username})

\* The calls running together, once a call of updateLicense begins: a view
\* call on a user with a record opens a batch when no call is running and
\* joins the batch of its user while that has fewer calls than the views
\* it began with; any other call ends the batch.
Batched(username, renew, view) ==
    IF ~(view /\ ~renew) \/ Matches(licenses, username) = {} THEN NoBatch
    ELSE IF \A p \in Procs : pc[p] = "idle"
    THEN [user |-> username, start |-> getLicense(licenses, username).views,
          calls |-> 1]
    ELSE IF batch.user = username /\ InFlight(username) > 0
            /\ batch.calls < batch.start
    THEN [batch EXCEPT !.calls = @ + 1]
    ELSE NoBatch

register_load(p, username, password, certsValid, signatureValid) ==
    LET error == register_check(username, password, certsValid, signatureValid) IN
    /\ pc[p] = "idle"
    /\ IF error # ""
       THEN /\ ret' = [op |-> "register", value |-> error]
            /\ UNCHANGED <<pc, args, users>>
       ELSE /\ pc' = [pc EXCEPT ![p] = "register"]
            /\ args' = [args EXCEPT ![p] = [NoArgs EXCEPT !.username = username,
                                                        !.password = password]]
            /\ users' = [users EXCEPT ![p] = licenses]
            /\ UNCHANGED ret
    /\ batch' = NoBatch
    /\ UNCHANGED <<licenses, now, tz>>

register_store(p) ==
    LET r == register_users(users[p], args[p].username, args[p].password) IN
    /\ pc[p] = "register"
    /\ ret' = [op |-> "register", value |-> r.value]
    /\ licenses' = IF r.wrote THEN r.users ELSE licenses
    /\ pc' = [pc EXCEPT ![p] = "idle"]
    /\ args' = [args EXCEPT ![p] = NoArgs]
    /\ users' = [users EXCEPT ![p] = <<>>]
    /\ UNCHANGED <<now, tz, batch>>

updateLicense_load(p, username, renew, view) ==
    /\ pc[p] = "idle"
    /\ IF username = ""
       THEN /\ ret' = [op |-> "updateLicense", value |-> None]
            /\ UNCHANGED <<pc, args, users>>
       ELSE /\ pc' = [pc EXCEPT ![p] = "updateLicense"]
            /\ args' = [args EXCEPT ![p] =
                           [username |-> username, password |-> "",
                            renew |-> renew, view |-> view]]
            /\ users' = [users EXCEPT ![p] = licenses]
            /\ UNCHANGED ret
    /\ batch' = Batched(username, renew, view)
    /\ UNCHANGED <<licenses, now, tz>>

updateLicense_store(p) ==
    LET r == updateLicense_users(users[p], args[p].username,
                                 args[p].renew, args[p].view)
    IN
    /\ pc[p] = "updateLicense"
    /\ ret' = [op |-> "updateLicense", value |-> r.value]
    /\ licenses' = IF r.wrote THEN r.users ELSE licenses
    /\ pc' = [pc EXCEPT ![p] = "idle"]
    /\ args' = [args EXCEPT ![p] = NoArgs]
    /\ users' = [users EXCEPT ![p] = <<>>]
    /\ UNCHANGED <<now, tz, batch>>

\* authenticate, lines 179-208, on the users file as it is.  password: the
\* digest presented; signatureValid: what CitizenCard.validateSignature
\* answers for the stored certificate; digest: sessionData['digest'].
\* The value is "user" for (u, ""), else the error message of (None, error);
\* "KeyError" when user['passwords'] has no such digest.
authenticate_value(us, username, password, signatureValid, digest) ==
    IF Matches(us, username) = {} THEN ""
    ELSE LET u == us[FirstIndex(us, username)] IN
         IF ~signatureValid THEN "The signature is not valid!"
         ELSE IF digest \notin DOMAIN u.passwords THEN "KeyError"
         ELSE IF u.passwords[digest] = password THEN "user"
         ELSE ""

authenticate(username, password, signatureValid, digest) ==
    /\ ret' = [op |-> "authenticate",
               value |-> authenticate_value(licenses, username, password,
                                            signatureValid, digest)]
    /\ UNCHANGED <<licenses, now, tz, pc, args, users, batch>>

\* licenseValid, called on the users file as it is.
licenseValid_call(username) ==
    /\ ret' = [op |-> "licenseValid",
               value |-> licenseValid(licenses, username)]
    /\ UNCHANGED <<licenses, now, tz, pc, args, users, batch>>

\* The clock is observed once per license span.
Tick ==
    /\ now + LICENSE_SPAN <= MaxTime
    /\ now' = now + LICENSE_SPAN
    /\ UNCHANGED <<licenses, tz, pc, args, users, ret, batch>>

LedgerInit ==
    /\ licenses = <<>>
    /\ now = 0
    /\ tz \in UtcOffsets
    /\ pc = [p \in Procs |-> "idle"]
    /\ args = [p \in Procs |-> NoArgs]
    /\ users = [p \in Procs |-> <<>>]
    /\ ret = NoRet
    /\ batch = NoBatch

\* A further view call leaves the user's views at -overdraw or above.
MayConsume(username, overdraw) ==
    Matches(licenses, username) # {}
        => getLicense(licenses, username).views - InFlight(username) > -overdraw

(***************************************************************************)
(* The media server, src/server/server.py.                                  *)
(***************************************************************************)
\* Byte strings are sequences of byte values.  A value that may be None is a
\* record: set tells whether it is a byte string at all.
NoBytes == [set |-> FALSE, bytes |-> <<>>]
Some(b) == [set |-> TRUE, bytes |-> b]

\* The clients of the model and the user each one acts for.
UserOf(c) == IF c = 1 THEN "alice" ELSE "bob"

\* CATALOG, the one media item, and its file_size; CHUNK_SIZE
MEDIA_ID == "898a08080d1840793122b7e118b27a95d117ebce"
CATALOG == {MEDIA_ID}
file_size == 3407202
CHUNK_SIZE == 4096

\* math.ceil(a / b) for positive integers
ceil_div(a, b) == (a + b - 1) \div b

\* do_choose_protocols: the lists the server advertises
protocols ==
    [cipher |-> {"AES", "3DEs"},
     digests |-> {"SHA512", "BLAKE2"},
     cipher_mode |-> {"CBC", "OFB"}]

NoSuite == [cipher |-> None, digest |-> None, cipher_mode |-> None]
InCatalog(suite) ==
    /\ suite.cipher \in protocols.cipher
    /\ suite.digest \in protocols.digests
    /\ suite.cipher_mode \in protocols.cipher_mode

\* The suite held in the server's three fields
ServerSuite == [cipher |-> CIPHER, digest |-> DIGEST, cipher_mode |-> CIPHER_MODE]

\* The chunk argument of a request: present tells whether the request has
\* one, numeric whether int() parses it to value; raw is the argument's bytes
\* when it does not.
ChunkArg(n) == [present |-> TRUE, numeric |-> TRUE, value |-> n, raw |-> <<>>]
BadChunkArg == [present |-> TRUE, numeric |-> FALSE, value |-> 0, raw |-> <<120>>]
NoChunkArg == [present |-> FALSE, numeric |-> FALSE, value |-> 0, raw |-> <<>>]

\* bytes(n) of an integer n >= 0: n zero bytes
zeros(n) == [i \in 1..n |-> 0]

\* bytes(chunk_id): chunk_id is the parsed integer, or still the raw bytes.
\* raised: ValueError, for a negative integer.
bytes_of(chunk_id) ==
    IF chunk_id.numeric
    THEN IF chunk_id.value < 0
         THEN [raised |-> TRUE, bytes |-> <<>>]
         ELSE [raised |-> FALSE, bytes |-> zeros(chunk_id.value)]
    ELSE [raised |-> FALSE, bytes |-> chunk_id.raw]

\* CryptoFunctions.symetric_encryption: raises unless the suite is one the
\* protocol catalog lists; else the cryptogram of the message under the key.
\* called: the call was made, with this key and suite.
symetric_encryption(key, message, suite) ==
    [called |-> TRUE, raised |-> ~InCatalog(suite), key |-> key, suite |-> suite]

\* cipher, lines 334-355: the key is self.shared_key, with the append bytes
\* added when there are any (TypeError when self.shared_key is None).
cipher(message, append) ==
    IF append # <<>> /\ ~shared_key.set
    THEN [called |-> FALSE, raised |-> TRUE, key |-> NoBytes, suite |-> NoSuite]
    ELSE symetric_encryption(
             IF append = <<>> THEN shared_key
             ELSE Some(shared_key.bytes \o append),
             message, ServerSuite)

\* What a request asked for: the media id and chunk argument of a download,
\* the suite of a negotiation.
NoReq == [id |-> "", chunk |-> NoChunkArg, suite |-> NoSuite]

\* The response of a request handler: the status, the kind of body ("plain",
\* "sealed", "empty" or "none"), what the body says, and of the call of
\* symetric_encryption made for it (called) the key and the suite.
\* The rest are observations: the session id the client holds and the suite
\* it has posted for that session (own), what it asked for, whether its
\* user's license was valid when the request came, and the decrements the
\* handler applied to the ledger.
Response(path, c, req, status, body, content, chunk, sealed) ==
    [path |-> path, client |-> c, session |-> client_session[c],
     own |-> IF client_session[c] = 0 THEN NoSuite
             ELSE negotiated[client_session[c]],
     req |-> req, status |-> status, body |-> body, content |-> content, chunk |-> chunk,
     called |-> sealed.called, key |-> sealed.key, suite |-> sealed.suite,
     mic |-> body = "sealed",
     valid |-> licenseValid(licenses, UserOf(c)), charged |-> 0]

Unsealed == [called |-> FALSE, raised |-> FALSE, key |-> NoBytes, suite |-> NoSuite]

NoResp ==
    [path |-> "", client |-> 0, session |-> 0, own |-> NoSuite, req |-> NoReq,
     status |-> 0, body |-> "none", content |-> "", chunk |-> -1,
     called |-> FALSE, key |-> NoBytes, suite |-> NoSuite, mic |-> FALSE,
     valid |-> FALSE, charged |-> 0]

\* render_GET, lines 215-219: a handler that raised
Error500(path, c, req, sealed) ==
    Response(path, c, req, 500, "empty", "", -1, sealed)
\* render_POST, lines 327-331
Error501(path, c) == Response(path, c, NoReq, 501, "empty", "", -1, Unsealed)

\* A handler's return of self.cipher(request, message, append) with the
\* status it has set.
Sealed(path, c, req, status, content, chunk, append) ==
    LET r == cipher(content, append) IN
    IF r.raised THEN Error500(path, c, req, r)
    ELSE Response(path, c, req, status, "sealed", content, chunk, r)

\* do_parameters
do_parameters(c) ==
    /\ resp' = Response("/api/parameters", c, NoReq, 200, "plain", "parameters", -1, Unsealed)
    /\ UNCHANGED <<sessions, shared_key, CIPHER, DIGEST, CIPHER_MODE, self_username,
                   client_session, negotiated>>
    /\ UNCHANGED ledgerVars

\* do_choose_protocols
do_choose_protocols(c) ==
    /\ resp' = Response("/api/protocols", c, NoReq, 200, "plain", "protocols", -1, Unsealed)
    /\ UNCHANGED <<sessions, shared_key, CIPHER, DIGEST, CIPHER_MODE, self_username,
                   client_session, negotiated>>
    /\ UNCHANGED ledgerVars

\* do_list
do_list(c) ==
    /\ resp' = Sealed("/api/list", c, NoReq, 200, "catalog", -1, <<>>)
    /\ UNCHANGED <<sessions, shared_key, CIPHER, DIGEST, CIPHER_MODE, self_username,
                   client_session, negotiated>>
    /\ UNCHANGED ledgerVars

\* update_license(self.username, media_duration), line 154, when the call is
\* reached: the view call of the ledger on that user.
update_license(us, name) == updateLicense_users(us, name, FALSE, TRUE).users

\* do_download.  id: "" when the request has no id; chunk: the chunk argument
\* (absent: the default b'0'); fileOk: whether the media file opens.
do_download(c, id, chunk, fileOk) ==
    LET path == "/api/download"
        req == [NoReq EXCEPT !.id = id, !.chunk = chunk]
        chunk_id == IF chunk.present THEN chunk ELSE ChunkArg(0)
        valid_chunk ==
            /\ chunk_id.numeric
            /\ chunk_id.value >= 0
            /\ chunk_id.value < ceil_div(file_size, CHUNK_SIZE)
        \* line 154 raises when self.username was never assigned; the bare
        \* except of line 155 swallows it
        charges == valid_chunk /\ self_username # None
        append == bytes_of(chunk_id)
    IN
    /\ IF id = "" \/ id \notin CATALOG
       THEN \* lines 129 and 139 read chunk_id before it is assigned
            /\ resp' = Error500(path, c, req, Unsealed)
            /\ UNCHANGED licenses
       ELSE /\ licenses' = IF charges THEN update_license(licenses, self_username)
                           ELSE licenses
            /\ resp' =
                 [ (IF ~valid_chunk
                    THEN IF append.raised THEN Error500(path, c, req, Unsealed)
                         ELSE Sealed(path, c, req, 400, "error: invalid chunk id",
                                     -1, append.bytes)
                    ELSE IF ~fileOk THEN Error500(path, c, req, Unsealed)
                    ELSE Sealed(path, c, req, 200, "chunk", chunk_id.value,
                                append.bytes))
                   EXCEPT !.charged = IF charges THEN 1 ELSE 0 ]
    /\ UNCHANGED <<sessions, shared_key, CIPHER, DIGEST, CIPHER_MODE, self_username,
                   client_session, negotiated>>
    /\ UNCHANGED <<now, tz, pc, args, users, ret, batch>>

\* The Diffie-Hellman group of the parameters file, and exponentiation in it
DH_P == 23
DH_G == 5

RECURSIVE ModExp(_, _, _)
ModExp(b, e, m) == IF e = 0 THEN 1 ELSE (b * ModExp(b, e - 1, m)) % m

\* The private key newKeys draws, and the key each client holds
PrivateKeys == {3}
ClientKey(c) == IF c = 1 THEN 6 ELSE 15

\* An exchange that multiplies where it should raise to a power
exchange_Product(private_key, peer_public_key) ==
    (peer_public_key * private_key) % DH_P

\* private_key.public_key() and private_key.exchange(peer_public_key)
public_key_of(private_key) == ModExp(DH_G, private_key, DH_P)
exchange(private_key, peer_public_key) == ModExp(peer_public_key, private_key, DH_P)

\* diffieHellman of the client, lines 111-133: the shared key client c
\* derives from the public key the server returned.
diffieHellman(c, server_public_key) == exchange(ClientKey(c), server_public_key)

\* An identifier that is the same at every call
uuid1_Reused ==
    IF DOMAIN sessions = {} THEN Cardinality(DOMAIN sessions) + 1
    ELSE CHOOSE s \in DOMAIN sessions : TRUE

\* uuid.uuid1(): an identifier no earlier call has returned
uuid1 == Cardinality(DOMAIN sessions) + 1

\* do_public_key.  pemOk: whether the posted public key loads.
do_public_key(c, pemOk, private_key) ==
    LET sessionid == uuid1
        client_public_key == public_key_of(ClientKey(c))
    IN
    /\ IF ~pemOk
       THEN /\ resp' = Error501("/api/publickey", c)
            /\ UNCHANGED <<sessions, client_session>>
       ELSE /\ sessions' =
                 [s \in DOMAIN sessions \cup {sessionid} |->
                     IF s = sessionid
                     THEN [public_key |-> public_key_of(private_key),
                           private_key |-> private_key,
                           shared_key |-> Some(<<exchange(private_key,
                                                          client_public_key)>>)]
                     ELSE sessions[s]]
            /\ client_session' = [client_session EXCEPT ![c] = sessionid]
            /\ resp' = Response("/api/publickey", c, NoReq, 200, "plain",
                                "public_key", -1, Unsealed)
    /\ UNCHANGED <<shared_key, CIPHER, DIGEST, CIPHER_MODE, self_username,
                   negotiated>>
    /\ UNCHANGED ledgerVars

\* process_negotiation
process_negotiation(c, suite) ==
    /\ CIPHER' = suite.cipher
    /\ DIGEST' = suite.digest
    /\ CIPHER_MODE' = suite.cipher_mode
    /\ negotiated' = IF client_session[c] = 0 THEN negotiated
                     ELSE [negotiated EXCEPT ![client_session[c]] = suite]
    /\ resp' = Response("/api/suite", c, [NoReq EXCEPT !.suite = suite], 200,
                        "none", "", -1, Unsealed)
    /\ UNCHANGED <<sessions, shared_key, self_username, client_session>>
    /\ UNCHANGED ledgerVars

\* new_license: line 296 unpacks the empty string into two names and raises
\* before self.username is assigned.
new_license(c) ==
    /\ resp' = Error501("/api/newLicense", c)
    /\ UNCHANGED <<sessions, shared_key, CIPHER, DIGEST, CIPHER_MODE, self_username,
                   client_session, negotiated>>
    /\ UNCHANGED ledgerVars

vars == <<ledgerVars, serverVars>>

\* MediaServer.__init__
ServerInit ==
    /\ sessions = <<>>
    /\ shared_key = NoBytes
    /\ CIPHER = None
    /\ DIGEST = None
    /\ CIPHER_MODE = None
    /\ self_username = None
    /\ client_session = [c \in Clients |-> 0]
    /\ negotiated = [s \in 1..MaxSessions |-> NoSuite]
    /\ resp = NoResp

Init == LedgerInit /\ ServerInit

\* The digests a session may hold: any a client posted, in the catalog or not
SessionDigests == digests \cup {"MD5"}

\* The ledger alone, one call at a time.
Next ==
    /\ \/ \E u \in Users \cup {""}, pw \in Passwords, c \in BOOLEAN, s \in BOOLEAN :
              register(u, pw, c, s)
       \/ \E u \in Users, pw \in Presented, s \in BOOLEAN, sd \in SessionDigests :
              authenticate(u, create_digest(pw, "SHA512"), s, sd)
       \/ \E u \in Users \cup {""} :
              \/ updateLicense(u, TRUE, FALSE)
              \/ MayConsume(u, MaxOverdraw) /\ updateLicense(u, FALSE, TRUE)
       \/ \E u \in Users : licenseValid_call(u)
       \/ Tick
    /\ UNCHANGED serverVars

Spec == Init /\ [][Next]_vars

\* Handlers that run concurrently on the one users file.
ConcurrentNext ==
    /\ \/ \E p \in Procs, u \in Users : register_load(p, u, "secret", TRUE, TRUE)
       \/ \E p \in Procs : register_store(p)
       \/ \E p \in Procs, u \in Users :
              MayConsume(u, 0) /\ updateLicense_load(p, u, FALSE, TRUE)
       \/ \E p \in Procs : updateLicense_store(p)
    /\ UNCHANGED serverVars

ConcurrentSpec == Init /\ [][ConcurrentNext]_vars

\* The private keys newKeys may draw for a session
MaxKey == 6
KeyRange == 1..MaxKey

\* The key exchanges alone, with every private key of the range.
KeyExchangeNext ==
    \/ \E c \in Clients : do_parameters(c)
    \/ \E c \in Clients, ok \in BOOLEAN, k \in KeyRange :
           Cardinality(DOMAIN sessions) < MaxSessions /\ do_public_key(c, ok, k)

KeyExchangeSpec == Init /\ [][KeyExchangeNext]_vars

\* The suites clients post, and the chunk arguments they ask for
SuiteInputs ==
    { [cipher |-> "AES", digest |-> "SHA512", cipher_mode |-> "CBC"],
      [cipher |-> "3DEs", digest |-> "BLAKE2", cipher_mode |-> "OFB"],
      [cipher |-> "SHA512", digest |-> "BLAKE2", cipher_mode |-> "CBC"],
      [cipher |-> "AES", digest |-> "MD5", cipher_mode |-> "CBC"],
      [cipher |-> "AES", digest |-> "SHA512", cipher_mode |-> "ECB"] }

ChunkInputs ==
    {NoChunkArg, BadChunkArg} \cup
    {ChunkArg(n) : n \in {-1, 0, 1, ceil_div(file_size, CHUNK_SIZE) - 1,
                          ceil_div(file_size, CHUNK_SIZE)}}

\* The download requests: every chunk argument for the media item, with a
\* file that opens; chunk 0 with one that does not; no id and an unknown id
DownloadInputs ==
    {[id |-> MEDIA_ID, chunk |-> ch, fileOk |-> TRUE] : ch \in ChunkInputs}
    \cup {[id |-> MEDIA_ID, chunk |-> ChunkArg(0), fileOk |-> FALSE]}
    \cup {[id |-> id, chunk |-> NoChunkArg, fileOk |-> TRUE] : id \in {"", "0000"}}

\* The ledgers the server is started on, each with the time of the start:
\* no user; alice's license valid, used up, and expired
LedgerInputs ==
    { [licenses |-> <<>>, now |-> 0],
      [licenses |-> <<[username |-> "alice", passwords |-> passwords_of("secret"),
                       views |-> LICENSE_VIEWS, time |-> LICENSE_SPAN]>>, now |-> 0],
      [licenses |-> <<[username |-> "alice", passwords |-> passwords_of("secret"),
                       views |-> 0, time |-> LICENSE_SPAN]>>, now |-> 0],
      [licenses |-> <<[username |-> "alice", passwords |-> passwords_of("secret"),
                       views |-> LICENSE_VIEWS, time |-> LICENSE_SPAN]>>, now |-> MaxTime] }

ServerSpecInit ==
    /\ ServerInit
    /\ \E l \in LedgerInputs : licenses = l.licenses /\ now = l.now
    /\ tz = 0
    /\ pc = [p \in Procs |-> "idle"]
    /\ args = [p \in Procs |-> NoArgs]
    /\ users = [p \in Procs |-> <<>>]
    /\ ret = NoRet
    /\ batch = NoBatch

\* The requests of the clients, one handler at a time.
ServerNext ==
    \/ \E c \in Clients : do_parameters(c)
    \/ \E c \in Clients : do_choose_protocols(c)
    \/ \E c \in Clients, ok \in BOOLEAN, k \in PrivateKeys :
           Cardinality(DOMAIN sessions) < MaxSessions /\ do_public_key(c, ok, k)
    \/ \E c \in Clients, suite \in SuiteInputs : process_negotiation(c, suite)
    \/ \E c \in Clients : new_license(c)
    \/ \E c \in Clients : do_list(c)
    \/ \E c \in Clients, r \in DownloadInputs :
           do_download(c, r.id, r.chunk, r.fileOk)

ServerSpec == ServerSpecInit /\ [][ServerNext]_vars

(***************************************************************************)
(* The claims.                                                             *)
(***************************************************************************)
HasRecord(username) == Matches(licenses, username) # {}
Record(username) == getLicense(licenses, username)
Quiescent == \A p \in Procs : pc[p] = "idle"

\* C1: N view calls that run together on a user whose record has N views
\* leave, once all have returned, the record with 0 views, whatever the
\* interleaving of their reads and writes of the users file.
C1_ConcurrentConsume ==
    (Quiescent /\ batch # NoBatch /\ batch.calls = batch.start)
        => Record(batch.user).views = 0

\* C2: in every reachable state of the ledger every record has views >= 0.
C2_ViewsNeverNegative ==
    \A i \in 1..Len(licenses) : licenses[i].views >= 0

\* isValid as the specification defines it, on the POSIX clock.
IsValid(username) ==
    /\ HasRecord(username)
    /\ Record(username).views > 0
    /\ Record(username).time > now

\* C4: licenseValid(username) is true if and only if a record exists, its
\* views are > 0 and its expiry is strictly after the current time.
C4_ValidIffRecordViewsAndFuture ==
    \A u \in Users : licenseValid(licenses, u) <=> IsValid(u)

\* The chunk argument of a download names a chunk the media item has.
InRange(chunk) ==
    \/ ~chunk.present
    \/ chunk.numeric /\ chunk.value >= 0
                     /\ chunk.value < ceil_div(file_size, CHUNK_SIZE)

\* C3: a download of a known media id and an in-range chunk by a user whose
\* license is not valid returns no chunk data, and what it returns sealed is
\* the LicenseInvalid error.
C3_InvalidLicenseRefused ==
    (/\ resp.path = "/api/download"
     /\ resp.req.id \in CATALOG
     /\ InRange(resp.req.chunk)
     /\ ~resp.valid)
        => /\ resp.content # "chunk"
           /\ resp.body = "sealed" => resp.content = "error: license invalid"

\* C5: a download decrements the user's views exactly once if it returns
\* chunk data and not at all if it fails.
C5_ChargedIffServed ==
    resp.path = "/api/download"
        => resp.charged = (IF resp.content = "chunk" THEN 1 ELSE 0)

\* C6: the suite used to seal a response for a session is the suite that
\* session negotiated, whatever other clients negotiate in between.
C6_SuiteOfOwnSession ==
    (resp.called /\ resp.session # 0 /\ resp.own # NoSuite)
        => resp.suite = resp.own

\* C7: the key used to seal a response for a request of a session is derived
\* from that session's stored shared secret, never from another or from none.
C7_KeyOfOwnSession ==
    (resp.called /\ resp.session # 0)
        => LET secret == sessions[resp.session].shared_key.bytes IN
           /\ resp.key.set
           /\ Len(resp.key.bytes) >= Len(secret)
           /\ SubSeq(resp.key.bytes, 1, Len(secret)) = secret

\* C8: no response is sealed for a session that has not completed the key
\* exchange and then the negotiation of its suite.
C8_HandshakeBeforeSeal ==
    resp.body = "sealed" => (resp.session # 0 /\ resp.own # NoSuite)

\* C9: a negotiation of a suite with a field outside the protocol catalog
\* fails and does not record the suite; one of a catalog triple succeeds and
\* that triple is then the recorded suite.
C9_SuiteValidated ==
    resp.path = "/api/suite"
        => IF InCatalog(resp.req.suite)
           THEN resp.status = 200 /\ ServerSuite = resp.req.suite
           ELSE resp.status # 200 /\ ServerSuite # resp.req.suite

\* C10: for a session that has negotiated its suite, a download of a known
\* media id with a numeric chunk index is rejected as an invalid chunk index
\* exactly when the index is negative or ceil(S/C) and above, and then with
\* the sealed error response of status 400, not an unhandled failure.
C10_ChunkBounds ==
    (/\ resp.path = "/api/download"
     /\ resp.req.id \in CATALOG
     /\ resp.req.chunk.present /\ resp.req.chunk.numeric
     /\ resp.session # 0 /\ InCatalog(resp.own))
        => IF InRange(resp.req.chunk)
           THEN resp.content # "error: invalid chunk id"
           ELSE /\ resp.status = 400
                /\ resp.body = "sealed"
                /\ resp.content = "error: invalid chunk id"

\* C11: a download with no media id, or with one the catalog does not hold,
\* is answered with the error response of an unknown media item (status 400
\* or 404 and its message), not with status 500, and decrements no views.
C11_MediaNotFound ==
    (resp.path = "/api/download" /\ resp.req.id \notin CATALOG)
        => /\ resp.status \in {400, 404}
           /\ resp.content \in {"error: invalid media id",
                                "error: media file not found"}
           /\ resp.charged = 0

\* C12: every response of /api/list and /api/download, success or error, is a
\* sealed body that carries the MIC of its cryptogram.
C12_ProtectedAlwaysSealed ==
    resp.path \in {"/api/list", "/api/download"}
        => resp.body = "sealed" /\ resp.mic

\* C13: the users file never holds two records of one username, and a
\* registration that completes when its username has a record returns the
\* error of a taken username and leaves the users file as it was, whatever
\* the interleaving of the registrations.
C13_UsernamesUnique ==
    /\ [](\A u \in Users : Cardinality(Matches(licenses, u)) <= 1)
    /\ [][\A p \in Procs :
            (register_store(p) /\ HasRecord(args[p].username))
                => /\ ret'.value = "The username given is already being used!"
                   /\ licenses' = licenses]_vars

\* C14: a register call that succeeds leaves the user's record with 4 views
\* and an expiry 5 minutes after the time of the call, and licenseValid of
\* the user is then true; it is true of every record with views left whose
\* expiry has not been reached.
C14_FreshLicenseValid ==
    /\ [][\A u \in Users, pw \in Passwords :
            (register(u, pw, TRUE, TRUE) /\ ~HasRecord(u))
                => /\ Record(u)'.views = LICENSE_VIEWS
                   /\ Record(u)'.time = now' + LICENSE_SPAN
                   /\ licenseValid(licenses, u)']_vars
    /\ [](\A u \in Users :
            (HasRecord(u) /\ Record(u).views > 0 /\ now < Record(u).time)
                => licenseValid(licenses, u))

\* C15: each view call on a record with views left takes one view, so four
\* of them take a fresh record to 0 views, where licenseValid is false; a
\* renew call on any record sets 4 views and an expiry 5 minutes after the
\* time of the call, and licenseValid of the user is then true.
C15_Lifecycle ==
    /\ [][\A u \in Users :
            (updateLicense(u, FALSE, TRUE) /\ HasRecord(u) /\ Record(u).views > 0)
                => Record(u)'.views = Record(u).views - 1]_vars
    /\ [](\A u \in Users :
            (HasRecord(u) /\ Record(u).views = 0) => ~licenseValid(licenses, u))
    /\ [][\A u \in Users :
            (updateLicense(u, TRUE, FALSE) /\ HasRecord(u))
                => /\ Record(u)'.views = LICENSE_VIEWS
                   /\ Record(u)'.time = now' + LICENSE_SPAN
                   /\ licenseValid(licenses, u)']_vars

\* C16: register adds a record only when the certificate chain validates and
\* the signature verifies; a chain that does not validate and a signature
\* that does not verify are each answered with their own error, and in these
\* cases and for a username that has a record the users file stays as it was.
C16_RegisterChecks ==
    [][\A u \in Users \cup {""}, pw \in Passwords, c \in BOOLEAN, s \in BOOLEAN :
          register(u, pw, c, s)
              => /\ licenses' # licenses => (c /\ s /\ ~HasRecord(u))
                 /\ (u # "" /\ ~c)
                        => ret'.value = "The signature certificate is not valid!"
                 /\ (u # "" /\ c /\ ~s)
                        => ret'.value = "The signature is not valid!"
                 /\ (~c \/ ~s \/ HasRecord(u)) => licenses' = licenses
                 /\ (u # "" /\ c /\ s /\ ~HasRecord(u))
                        => /\ ret'.value = "user"
                           /\ licenses' = Append(licenses, NewUser(u, pw))]_vars

\* C16 witness: a registration was refused for its signature while the users
\* file holds a record.
C16_Witness ==
    /\ ret = [op |-> "register", value |-> "The signature is not valid!"]
    /\ licenses # <<>>

\* C17: authenticate returns the user's record exactly when the username has
\* a record, the signature verifies and the digest presented equals the one
\* stored for the session's digest; a username without a record, a signature
\* that does not verify (whatever the password) and a digest that differs
\* are each answered with an error message; the users file is never changed.
C17_AuthenticateErrors ==
    [][\A u \in Users, pw \in Presented, s \in BOOLEAN, sd \in SessionDigests :
          LET presented == create_digest(pw, "SHA512")
              stored == Record(u).passwords
              matches == sd \in DOMAIN stored /\ stored[sd] = presented
          IN
          authenticate(u, presented, s, sd)
              => /\ licenses' = licenses
                 /\ ret'.value = "user" <=> (HasRecord(u) /\ s /\ matches)
                 /\ (HasRecord(u) /\ ~s)
                        => ret'.value = "The signature is not valid!"
                 /\ ~HasRecord(u)
                        => ret'.value \notin {"", "user", "KeyError"}
                 /\ (HasRecord(u) /\ s /\ ~matches)
                        => ret'.value \notin {"", "user", "KeyError",
                                              "The signature is not valid!"}]_vars

\* C18: a renew or view call of updateLicense for a username that has no
\* record returns None and leaves the users file as it was.
C18_UnknownUserUntouched ==
    [][\A u \in Users \cup {""}, renew \in BOOLEAN, view \in BOOLEAN :
          (updateLicense(u, renew, view) /\ ~HasRecord(u))
              => ret'.value = None /\ licenses' = licenses]_vars

\* C18 witness: updateLicense has returned None for a user without a record
\* while the users file holds the record of another.
C18_Witness ==
    /\ ret = [op |-> "updateLicense", value |-> None]
    /\ \E u \in Users : HasRecord(u)
    /\ \E u \in Users : ~HasRecord(u)

\* C19: a key exchange that succeeds adds one session under an identifier no
\* session had, and hands that identifier to the client; no request of any
\* client removes a session or changes the keys stored for it.
C19_SessionsWriteOnce ==
    [][/\ \A s \in DOMAIN sessions :
              s \in DOMAIN sessions' /\ sessions'[s] = sessions[s]
       /\ \A c \in Clients, k \in PrivateKeys :
              do_public_key(c, TRUE, k)
                  => /\ client_session'[c] \in DOMAIN sessions' \ DOMAIN sessions
                     /\ DOMAIN sessions' = DOMAIN sessions \cup {client_session'[c]}
                     /\ sessions'[client_session'[c]].shared_key.set]_vars

\* C19 witness: two sessions exist, the clients hold different ones, and a
\* suite has been posted and a download answered since.
C19_Witness ==
    /\ Cardinality(DOMAIN sessions) > 1
    /\ \A c, d \in Clients : c # d => client_session[c] # client_session[d]
    /\ CIPHER # None
    /\ resp.path = "/api/download"

\* C20: a negotiation by a client that holds no session is refused and
\* records no suite, neither in the server's fields nor for any session.
C20_NegotiationNeedsSession ==
    [][\A c \in Clients, suite \in SuiteInputs :
          (process_negotiation(c, suite) /\ client_session[c] = 0)
              => /\ resp'.status # 200
                 /\ UNCHANGED <<CIPHER, DIGEST, CIPHER_MODE, negotiated>>]_vars

\* C21: the shared key of a key pair with the public key of another equals
\* the shared key of the other pair with the public key of the first, for
\* all private keys of the group; so the shared key the server stores for a
\* session equals the one the session's client derives from the public key
\* the server returned.
C21_KeyAgreement ==
    /\ \A s \in DOMAIN sessions, b \in 1..(DH_P - 2) :
           exchange(sessions[s].private_key, public_key_of(b))
               = exchange(b, sessions[s].public_key)
    /\ \A c \in Clients :
           client_session[c] # 0
               => sessions[client_session[c]].shared_key
                      = Some(<<diffieHellman(c, sessions[client_session[c]].public_key)>>)

\* C21 witness: both clients have completed a key exchange, with different
\* private keys on the server's side.
C21_Witness ==
    /\ \A c \in Clients : client_session[c] # 0
    /\ \E s, t \in DOMAIN sessions : sessions[s].private_key # sessions[t].private_key
    /\ resp.path = "/api/publickey" /\ resp.status = 200

\* C22: a download that returns chunk data to a client whose user has a
\* record takes one view from that user's record and leaves the record of
\* every other user as it was.
C22_ChargesOnlyRequester ==
    [][\A c \in Clients, r \in DownloadInputs :
          (/\ do_download(c, r.id, r.chunk, r.fileOk)
           /\ resp'.content = "chunk"
           /\ HasRecord(UserOf(c)))
              => /\ Record(UserOf(c))' =
                        [Record(UserOf(c)) EXCEPT !.views = @ - 1]
                 /\ \A u \in Users \ {UserOf(c)} : Record(u)' = Record(u)]_vars

\* The chunk index a download request asks for (0 when it names none)
IndexOf(chunk) == IF chunk.present THEN chunk.value ELSE 0

\* C23: the key handed to the encryption for the chunk of a download differs
\* from the key the catalog listing is encrypted with, and from the key of
\* every other chunk index, index 0 included.
C23_KeyBoundToChunk ==
    (/\ resp.path = "/api/download"
     /\ resp.req.id \in CATALOG
     /\ InRange(resp.req.chunk)
     /\ resp.called)
        => /\ resp.key # cipher("catalog", <<>>).key
           /\ \A ch \in ChunkInputs :
                  (InRange(ch) /\ IndexOf(ch) # IndexOf(resp.req.chunk))
                      => LET other == cipher("chunk", zeros(IndexOf(ch))) IN
                         other.called => other.key # resp.key
=============================================================================
